---- MODULE Spec2Model ----
(***************************************************************************)
(* Flask-Trello-Lite (src/app.py): users, boards, lists and cards kept in  *)
(* four tables, a login session per browser, and one route handler per     *)
(* operation.  A handler that loads a row, checks its owner and then       *)
(* commits is two steps (load-check, then its own commit), so that         *)
(* requests of different browsers interleave between the two.  The other   *)
(* handlers are one step.  request and resp hold the request the last step *)
(* served and the response it gave (Pending after a load step that goes on *)
(* to commit).                                                             *)
(*                                                                         *)
(* Storage is the default of app.py:26, SQLite, which checks no foreign    *)
(* key unless asked to, and the program never asks.  (An engine that does  *)
(* check them refuses the commit: that is the case fail of a commit.)      *)
(* Identifiers are INTEGER PRIMARY KEY rowids: the next identifier is one  *)
(* more than the largest stored.  A commit may fail for any reason of the  *)
(* storage layer: fail.                                                    *)
(***************************************************************************)
EXTENDS Integers, Sequences, FiniteSets, TLC

VARIABLES users, boards, lists, cards, session, req, request, resp

vars == <<users, boards, lists, cards, session, req, request, resp>>
db == <<users, boards, lists, cards>>

(* Bounds of the model. *)
MaxBoards == 2
MaxLists == 2
MaxCards == 2

Browsers == {"c1", "c2"}
Usernames == {"alice", "bob"}
Emails == {"a@x.com", "b@x.com"}
Passwords == {"pw1", "pw2"}
Titles == {"Work"}
(* request.form.get(...) of a field the form does not carry: None. *)
Missing == "None"
FieldValues == Titles \cup {"", Missing}
Methods == {"GET", "POST"}
NextPages == {"", "/board/1"}

NoUser == 0
BoardIds == 1..MaxBoards
ListIds == 1..MaxLists
CardIds == 1..MaxCards

Max(S) == CHOOSE x \in S : \A y \in S : y <= x

(* id = db.Column(db.Integer, primary_key=True): the rowid the engine gives. *)
NextId(rows) == IF rows = {} THEN 1 ELSE Max({r.id : r \in rows}) + 1

(* werkzeug.security: a hash is not the password, and verifies only it. *)
generate_password_hash(password) == <<"pbkdf2", password>>
check_password_hash(hash, password) == hash = generate_password_hash(password)

(* forms.py: required fields and the CSRF token of a submitted form. *)
validate_on_submit(form) ==
    /\ form.method = "POST"
    /\ form.csrf
    /\ \A f \in DOMAIN form.data : form.data[f] # ""

Idle == [op |-> "idle", id |-> 0, text |-> ""]

(* A request: the browser, the route, its arguments, and what the storage *)
(* layer answers to its commit.                                            *)
NoForm == [method |-> "GET", csrf |-> FALSE, data |-> [username |-> ""]]
Request(c, op, phase) ==
    [c |-> c, op |-> op, phase |-> phase, id |-> 0, text |-> "", ajax |-> FALSE,
     fail |-> FALSE, form |-> NoForm]
NoRequest == Request("", "", "")

(* ---------------- rows and relationships ---------------- *)
UserRow(id) == CHOOSE u \in users : u.id = id
BoardRow(id) == CHOOSE b \in boards : b.id = id
ListRow(id) == CHOOSE l \in lists : l.id = id
CardRow(id) == CHOOSE k \in cards : k.id = id

HasUser(id) == \E u \in users : u.id = id
HasBoard(id) == \E b \in boards : b.id = id
HasList(id) == \E l \in lists : l.id = id
HasCard(id) == \E k \in cards : k.id = id

(* load_user: the user the session names. *)
load_user(user_id) == UserRow(user_id)
current_user(c) == load_user(session[c])
is_authenticated(c) == session[c] # NoUser /\ HasUser(session[c])

(* Board.lists, List.cards: the children a cascade reaches. *)
BoardLists(board_id) == {l \in lists : l.board_id = board_id}
ListCards(list_id) == {k \in cards : k.list_id = list_id}
BoardCards(board_id) == {k \in cards : \E l \in BoardLists(board_id) : k.list_id = l.id}

(* User.boards with backref owner (the second declaration is the one mapped). *)
UserBoards(user_id) == {b \in boards : b.user_id = user_id}
HasOwner(board) == HasUser(board.user_id)
owner(board) == UserRow(board.user_id)

(* ---------------- responses ---------------- *)
Response(kind, status, to, flash) ==
    [kind |-> kind, status |-> status, to |-> to, flash |-> flash,
     json |-> <<>>, boards |-> <<>>]
Redirect(to, flash) == Response("redirect", 302, to, flash)
Render(template, flash) == Response("render", 200, template, flash)
NotFound == Response("abort", 404, "", "")
ServerError == Response("error", 500, "", "")
Jsonify(status, success, message, board) ==
    [kind |-> "json", status |-> status, to |-> "", flash |-> "",
     json |-> [success |-> success, message |-> message, board |-> board],
     boards |-> <<>>]

(* A load step that found nothing wrong: the response comes with the commit. *)
Pending == Response("pending", 0, "", "")

(* login_required without a session: flask-login sends the browser to login_view. *)
LoginRedirect == Redirect("login", "Please log in to access this page.")

Init ==
    /\ users = {}
    /\ boards = {}
    /\ lists = {}
    /\ cards = {}
    /\ session = [c \in Browsers |-> NoUser]
    /\ req = [c \in Browsers |-> Idle]
    /\ request = NoRequest
    /\ resp = Render("", "")

(* ---------------- checks the handlers make ---------------- *)
(* A schema whose email column lost unique=True. *)
UniqueViolation_UsernameOnly(username, email) ==
    \E u \in users : u.username = username

(* unique=True on username and on email: what the engine refuses to insert. *)
UniqueViolation(username, email) ==
    \E u \in users : u.username = username \/ u.email = email

(* A check "is None" in place of "not": the empty string passes. *)
IsEmpty_OnlyNone(text) == text = Missing

(* not board_title, not list_title, not card_content: None and "" are falsy. *)
IsEmpty(text) == text \in {"", Missing}

(* The payload built before the commit gave the row its id. *)
BoardJson_NoId(board) == [id |-> 0, title |-> board.title, list_count |-> 0]

(* the 'board' object of the JSON answer to a created board *)
BoardJson(board) == [id |-> board.id, title |-> board.title, list_count |-> 0]

(* The board's own id compared in place of its user_id. *)
NotOwner_BoardId(board, c) == board.id # current_user(c).id

(* board.user_id != current_user.id *)
NotOwner(board, c) == board.user_id # current_user(c).id

(* The owner object compared with current_user.id: never equal. *)
NotCardOwner_ObjectVsId(board, c) == TRUE

(* card_to_delete.list.board.owner != current_user *)
NotCardOwner(board, c) == ~HasOwner(board) \/ owner(board) # current_user(c)

(* List.cards declared without its cascade: the cards stay. *)
BoardCascade_NoCards(board_id) ==
    <<{b \in boards : b.id = board_id}, BoardLists(board_id), {}>>

(* db.session.delete(board) with cascade="all, delete-orphan" on lists and cards. *)
BoardCascade(board_id) ==
    <<{b \in boards : b.id = board_id}, BoardLists(board_id), BoardCards(board_id)>>

(* db.session.delete(list) with cascade="all, delete-orphan" on cards. *)
ListCascade(list_id) == <<{l \in lists : l.id = list_id}, ListCards(list_id)>>

(* current_user.boards: a SELECT with no ORDER BY, so in any order. *)
Orderings(S) ==
    {s \in [1..Cardinality(S) -> S] : \A i, j \in 1..Cardinality(S) : i # j => s[i] # s[j]}

(* Board.query.filter_by(user_id=...).order_by(desc(Board.id)).all() *)
RECURSIVE SortDesc(_)
SortDesc(S) == IF S = {} THEN <<>> ELSE <<Max(S)>> \o SortDesc(S \ {Max(S)})
BoardsByIdDesc(user_id) == SortDesc({b.id : b \in UserBoards(user_id)})

(* ---------------- handlers without a load step ---------------- *)
Serve(rq, response) ==
    /\ request' = rq
    /\ resp' = response

(* GET /: the sorted query is made and dropped, current_user.boards is rendered. *)
index(c) ==
    /\ req[c] = Idle
    /\ IF ~is_authenticated(c)
         THEN Serve(Request(c, "index", "whole"), LoginRedirect)
         ELSE \E user_boards \in Orderings({b.id : b \in UserBoards(current_user(c).id)}) :
                 Serve(Request(c, "index", "whole"),
                       [Render("index.html", "") EXCEPT !.boards = user_boards])
    /\ UNCHANGED <<users, boards, lists, cards, session, req>>

(* A login that forgot the password: "if user:". *)
Authenticates_AnyPassword(found, password) == found # {}

(* user and check_password_hash(user.password_hash, form.password.data) *)
Authenticates(found, password) ==
    \E u \in found : check_password_hash(u.password_hash, password)

(* GET/POST /login *)
login(c, form, next_page) ==
    /\ req[c] = Idle
    /\ LET rq == [Request(c, "login", "whole") EXCEPT !.form = form, !.text = next_page]
           found == {u \in users : u.username = form.data.username}
       IN IF validate_on_submit(form)
            THEN IF Authenticates(found, form.data.password)
                   THEN /\ session' = [session EXCEPT ![c] = (CHOOSE u \in found : TRUE).id]
                        /\ Serve(rq, Redirect(IF next_page # "" THEN next_page ELSE "index",
                                              "Logged in successfully."))
                   ELSE /\ Serve(rq, Render("login.html",
                                            "Login Unsuccessful. Check username and password."))
                        /\ UNCHANGED session
            ELSE /\ Serve(rq, Render("login.html", ""))
                 /\ UNCHANGED session
    /\ UNCHANGED <<users, boards, lists, cards, req>>

(* GET/POST /register *)
register(c, form, fail) ==
    /\ req[c] = Idle
    /\ fail => validate_on_submit(form)
    /\ LET rq == [Request(c, "register", "whole") EXCEPT !.form = form, !.fail = fail] IN
       IF validate_on_submit(form)
         THEN LET new_user == [id |-> NextId(users),
                               username |-> form.data.username,
                               email |-> form.data.email,
                               password_hash |-> generate_password_hash(form.data.password)]
              IN IF fail \/ UniqueViolation(new_user.username, new_user.email)
                   THEN /\ UNCHANGED users
                        /\ Serve(rq, Render("register.html",
                               "An error occurred during registration. Check if username or email is already in use."))
                   ELSE /\ users' = users \cup {new_user}
                        /\ Serve(rq, Redirect("login", "Registration successful! Please log in."))
         ELSE /\ UNCHANGED users
              /\ Serve(rq, Render("register.html", ""))
    /\ UNCHANGED <<boards, lists, cards, session, req>>

(* GET /logout *)
logout(c) ==
    /\ req[c] = Idle
    /\ IF ~is_authenticated(c)
         THEN /\ Serve(Request(c, "logout", "whole"), LoginRedirect)
              /\ UNCHANGED session
         ELSE /\ session' = [session EXCEPT ![c] = NoUser]
              /\ Serve(Request(c, "logout", "whole"),
                       Redirect("index", "You have been logged out."))
    /\ UNCHANGED <<users, boards, lists, cards, req>>

(* POST /boards/new *)
new_board(c, board_title, ajax, fail) ==
    /\ req[c] = Idle
    /\ fail => is_authenticated(c) /\ ~IsEmpty(board_title)
    /\ LET rq == [Request(c, "new_board", "whole") EXCEPT
                     !.text = board_title, !.ajax = ajax, !.fail = fail] IN
       IF ~is_authenticated(c)
         THEN /\ Serve(rq, LoginRedirect)
              /\ UNCHANGED boards
         ELSE IF IsEmpty(board_title)
         THEN /\ Serve(rq, IF ajax
                             THEN Jsonify(400, FALSE, "Board title cannot be empty.", <<>>)
                             ELSE Redirect("index", "Board title cannot be empty."))
              /\ UNCHANGED boards
         ELSE LET board == [id |-> NextId(boards), title |-> board_title,
                            user_id |-> current_user(c).id]
              IN IF fail
                   THEN /\ Serve(rq, IF ajax
                                       THEN Jsonify(500, FALSE,
                                                "There was an issue creating the board.", <<>>)
                                       ELSE Redirect("index",
                                                "There was an issue creating the board."))
                        /\ UNCHANGED boards
                   ELSE /\ board.id <= MaxBoards
                        /\ boards' = boards \cup {board}
                        /\ Serve(rq, IF ajax
                                       THEN Jsonify(201, TRUE, "Board created successfully!",
                                                <<BoardJson(board)>>)
                                       ELSE Redirect("index", "Board created successfully!"))
    /\ UNCHANGED <<users, lists, cards, session, req>>

(* GET /board/<id> *)
view_board(c, board_id) ==
    /\ req[c] = Idle
    /\ Serve([Request(c, "view_board", "whole") EXCEPT !.id = board_id],
             IF ~is_authenticated(c) THEN LoginRedirect
             ELSE IF ~HasBoard(board_id) THEN NotFound
             ELSE IF NotOwner(BoardRow(board_id), c)
                    THEN Redirect("index", "You do not have permission to view that board.")
             ELSE Render("board_detail.html", ""))
    /\ UNCHANGED <<users, boards, lists, cards, session, req>>

(* ---------------- handlers with a load step and a commit ---------------- *)
InFlight(rq) ==
    /\ request' = rq
    /\ resp' = Pending
    /\ req' = [req EXCEPT ![rq.c] = [op |-> rq.op, id |-> rq.id, text |-> rq.text]]

Answer(rq, response) ==
    /\ request' = rq
    /\ resp' = response
    /\ req' = [req EXCEPT ![rq.c] = Idle]

Load(c, op, id, text) == [Request(c, op, "load") EXCEPT !.id = id, !.text = text]
Commit(c, fail) ==
    [Request(c, req[c].op, "commit") EXCEPT !.id = req[c].id, !.text = req[c].text,
                                            !.fail = fail]

(* POST /board/<id>/list/new: up to the title check. *)
new_list_load(c, board_id, list_title) ==
    /\ req[c] = Idle
    /\ LET rq == Load(c, "new_list", board_id, list_title) IN
       IF ~is_authenticated(c) THEN Answer(rq, LoginRedirect)
       ELSE IF ~HasBoard(board_id) THEN Answer(rq, NotFound)
       ELSE IF NotOwner(BoardRow(board_id), c)
              THEN Answer(rq, Redirect("index", "Unauthorized action."))
       ELSE IF IsEmpty(list_title)
              THEN Answer(rq, Redirect("view_board", "List title cannot be empty."))
       ELSE InFlight(rq)
    /\ UNCHANGED <<users, boards, lists, cards, session>>

(* POST /board/<id>/list/new: db.session.add(new_list); db.session.commit() *)
new_list_commit(c, fail) ==
    /\ req[c].op = "new_list"
    /\ LET new == [id |-> NextId(lists), title |-> req[c].text, board_id |-> req[c].id]
       IN IF fail
            THEN /\ UNCHANGED lists
                 /\ Answer(Commit(c, fail),
                           Redirect("view_board", "There was an issue creating the list."))
            ELSE /\ new.id <= MaxLists
                 /\ lists' = lists \cup {new}
                 /\ Answer(Commit(c, fail), Redirect("view_board", "List added."))
    /\ UNCHANGED <<users, boards, cards, session>>

(* POST /list/<id>/card/new: up to the content check. *)
create_card_load(c, list_id, card_content) ==
    /\ req[c] = Idle
    /\ LET rq == Load(c, "create_card", list_id, card_content) IN
       IF ~is_authenticated(c) THEN Answer(rq, LoginRedirect)
       ELSE IF ~HasList(list_id) THEN Answer(rq, NotFound)
       ELSE IF ~HasBoard(ListRow(list_id).board_id) THEN Answer(rq, ServerError)
       ELSE IF NotOwner(BoardRow(ListRow(list_id).board_id), c)
              THEN Answer(rq, Redirect("index", "Unauthorized action."))
       ELSE IF IsEmpty(card_content)
              THEN Answer(rq, Redirect("view_board", "Card content cannot be empty."))
       ELSE InFlight(rq)
    /\ UNCHANGED <<users, boards, lists, cards, session>>

(* POST /list/<id>/card/new: db.session.add(new_card); db.session.commit() *)
create_card_commit(c, fail) ==
    /\ req[c].op = "create_card"
    /\ LET new == [id |-> NextId(cards), content |-> req[c].text, list_id |-> req[c].id]
       IN IF fail
            THEN /\ UNCHANGED cards
                 /\ Answer(Commit(c, fail),
                           Redirect("view_board", "There was an issue creating your card."))
            ELSE /\ new.id <= MaxCards
                 /\ cards' = cards \cup {new}
                 /\ Answer(Commit(c, fail),
                           Redirect("view_board", "Card created successfully!"))
    /\ UNCHANGED <<users, boards, lists, session>>

(* POST /board/<id>/delete: up to the owner check. *)
delete_board_load(c, board_id) ==
    /\ req[c] = Idle
    /\ LET rq == Load(c, "delete_board", board_id, "") IN
       IF ~is_authenticated(c) THEN Answer(rq, LoginRedirect)
       ELSE IF ~HasBoard(board_id) THEN Answer(rq, NotFound)
       ELSE IF NotOwner(BoardRow(board_id), c)
              THEN Answer(rq, Redirect("index", "Unauthorized to delete this board."))
       ELSE InFlight(rq)
    /\ UNCHANGED <<users, boards, lists, cards, session>>

(* A failed delete whose except branch forgot db.session.rollback(): the *)
(* cards already flushed stay deleted.                                    *)
delete_board_commit_NoRollback(c, fail) ==
    /\ req[c].op = "delete_board"
    /\ IF fail
         THEN /\ cards' = cards \ BoardCards(req[c].id)
              /\ UNCHANGED <<boards, lists>>
              /\ Answer(Commit(c, fail),
                        Redirect("index", "There was an error deleting the board."))
         ELSE /\ boards' = boards \ {b \in boards : b.id = req[c].id}
              /\ lists' = lists \ BoardLists(req[c].id)
              /\ cards' = cards \ BoardCards(req[c].id)
              /\ Answer(Commit(c, fail), Redirect("index", "Board successfully deleted."))
    /\ UNCHANGED <<users, session>>

(* POST /board/<id>/delete: db.session.delete(board); db.session.commit() *)
delete_board_commit(c, fail) ==
    /\ req[c].op = "delete_board"
    /\ IF fail
         THEN /\ UNCHANGED <<boards, lists, cards>>
              /\ Answer(Commit(c, fail),
                        Redirect("index", "There was an error deleting the board."))
         ELSE /\ boards' = boards \ BoardCascade(req[c].id)[1]
              /\ lists' = lists \ BoardCascade(req[c].id)[2]
              /\ cards' = cards \ BoardCascade(req[c].id)[3]
              /\ Answer(Commit(c, fail), Redirect("index", "Board successfully deleted."))
    /\ UNCHANGED <<users, session>>

(* POST /list/<id>/delete: up to the owner check. *)
delete_list_load(c, list_id) ==
    /\ req[c] = Idle
    /\ LET rq == Load(c, "delete_list", list_id, "") IN
       IF ~is_authenticated(c) THEN Answer(rq, LoginRedirect)
       ELSE IF ~HasList(list_id) THEN Answer(rq, NotFound)
       ELSE IF ~HasBoard(ListRow(list_id).board_id) THEN Answer(rq, ServerError)
       ELSE IF NotOwner(BoardRow(ListRow(list_id).board_id), c)
              THEN Answer(rq, Redirect("index", "Unauthorized to delete this list."))
       ELSE InFlight(rq)
    /\ UNCHANGED <<users, boards, lists, cards, session>>

(* POST /list/<id>/delete: db.session.delete(list_to_delete); db.session.commit() *)
delete_list_commit(c, fail) ==
    /\ req[c].op = "delete_list"
    /\ IF fail
         THEN /\ UNCHANGED <<lists, cards>>
              /\ Answer(Commit(c, fail),
                        Redirect("view_board", "There was an error deleting the list."))
         ELSE /\ lists' = lists \ ListCascade(req[c].id)[1]
              /\ cards' = cards \ ListCascade(req[c].id)[2]
              /\ Answer(Commit(c, fail),
                        Redirect("view_board", "List successfully deleted."))
    /\ UNCHANGED <<users, boards, session>>

(* POST /card/<id>/delete: up to the owner check. *)
delete_card_load(c, card_id) ==
    /\ req[c] = Idle
    /\ LET rq == Load(c, "delete_card", card_id, "") IN
       IF ~is_authenticated(c) THEN Answer(rq, LoginRedirect)
       ELSE IF ~HasCard(card_id) THEN Answer(rq, NotFound)
       ELSE IF ~HasList(CardRow(card_id).list_id) THEN Answer(rq, ServerError)
       ELSE IF ~HasBoard(ListRow(CardRow(card_id).list_id).board_id)
              THEN Answer(rq, ServerError)
       ELSE IF NotCardOwner(BoardRow(ListRow(CardRow(card_id).list_id).board_id), c)
              THEN Answer(rq, Redirect("index", "Unauthorized to delete this card."))
       ELSE InFlight(rq)
    /\ UNCHANGED <<users, boards, lists, cards, session>>

(* POST /card/<id>/delete: db.session.delete(card_to_delete); db.session.commit() *)
delete_card_commit(c, fail) ==
    /\ req[c].op = "delete_card"
    /\ IF fail
         THEN /\ UNCHANGED cards
              /\ Answer(Commit(c, fail),
                        Redirect("view_board", "There was an error deleting the card."))
         ELSE /\ cards' = cards \ {k \in cards : k.id = req[c].id}
              /\ Answer(Commit(c, fail),
                        Redirect("view_board", "Card successfully deleted."))
    /\ UNCHANGED <<users, boards, lists, session>>

(* ---------------- the program ---------------- *)
(* The forms a browser sends: a POST with its token, and one GET and one POST *)
(* without the token for each kind of form.                                   *)
Forms(Data) ==
    [method : {"POST"}, csrf : {TRUE}, data : Data]
        \cup {[method |-> m, csrf |-> FALSE, data |-> CHOOSE d \in Data : d.username # ""] :
                 m \in Methods}
LoginForms == Forms([username : Usernames \cup {""}, password : Passwords])
RegisterForms ==
    Forms([username : Usernames \cup {""}, email : Emails, password : {"pw1"}])

(* One browser, every route, from the empty database. *)
Next ==
    \E c \in {"c1"} :
        \/ index(c)
        \/ \E form \in LoginForms, next_page \in NextPages : login(c, form, next_page)
        \/ \E form \in RegisterForms, fail \in BOOLEAN : register(c, form, fail)
        \/ logout(c)
        \/ \E t \in FieldValues, ajax \in BOOLEAN, fail \in BOOLEAN :
               new_board(c, t, ajax, fail)
        \/ \E b \in BoardIds : view_board(c, b)
        \/ \E b \in BoardIds, t \in FieldValues : new_list_load(c, b, t)
        \/ \E fail \in BOOLEAN : new_list_commit(c, fail)
        \/ \E l \in ListIds, t \in FieldValues : create_card_load(c, l, t)
        \/ \E fail \in BOOLEAN : create_card_commit(c, fail)
        \/ \E b \in BoardIds : delete_board_load(c, b)
        \/ \E fail \in BOOLEAN : delete_board_commit(c, fail)
        \/ \E l \in ListIds : delete_list_load(c, l)
        \/ \E fail \in BOOLEAN : delete_list_commit(c, fail)
        \/ \E k \in CardIds : delete_card_load(c, k)
        \/ \E fail \in BOOLEAN : delete_card_commit(c, fail)

Spec == Init /\ [][Next]_vars

(* Two browsers whose requests interleave, once alice and bob have registered *)
(* and logged in: c1 is alice's, c2 is alice's second browser or bob's.       *)
InitBoards ==
    /\ users = {[id |-> 1, username |-> "alice", email |-> "a@x.com",
                 password_hash |-> generate_password_hash("pw1")],
                [id |-> 2, username |-> "bob", email |-> "b@x.com",
                 password_hash |-> generate_password_hash("pw1")]}
    /\ boards = {}
    /\ lists = {}
    /\ cards = {}
    /\ session \in {[c \in Browsers |-> 1], [c \in Browsers |-> IF c = "c1" THEN 1 ELSE 2]}
    /\ req = [c \in Browsers |-> Idle]
    /\ request = NoRequest
    /\ resp = Render("", "")

NextBoards ==
    \E c \in Browsers :
        \/ index(c)
        \/ \E t \in FieldValues, ajax \in BOOLEAN, fail \in BOOLEAN :
               new_board(c, t, ajax, fail)
        \/ \E b \in BoardIds : view_board(c, b)
        \/ \E b \in BoardIds, t \in FieldValues : new_list_load(c, b, t)
        \/ \E fail \in BOOLEAN : new_list_commit(c, fail)
        \/ \E l \in ListIds, t \in FieldValues : create_card_load(c, l, t)
        \/ \E fail \in BOOLEAN : create_card_commit(c, fail)
        \/ \E b \in BoardIds : delete_board_load(c, b)
        \/ \E fail \in BOOLEAN : delete_board_commit(c, fail)
        \/ \E l \in ListIds : delete_list_load(c, l)
        \/ \E fail \in BOOLEAN : delete_list_commit(c, fail)
        \/ \E k \in CardIds : delete_card_load(c, k)
        \/ \E fail \in BOOLEAN : delete_card_commit(c, fail)

SpecBoards == InitBoards /\ [][NextBoards]_vars
(* ======================= properties ======================= *)
(* The ownership chain Card -> List -> Board -> User: the identifier of the *)
(* user an entity resolves to, NoUser when it does not exist or its chain   *)
(* is broken.                                                               *)
BoardOwnerId(board_id) ==
    IF HasBoard(board_id) /\ HasUser(BoardRow(board_id).user_id)
      THEN BoardRow(board_id).user_id ELSE NoUser
ListOwnerId(list_id) ==
    IF HasList(list_id) THEN BoardOwnerId(ListRow(list_id).board_id) ELSE NoUser
CardOwnerId(card_id) ==
    IF HasCard(card_id) THEN ListOwnerId(CardRow(card_id).list_id) ELSE NoUser
TargetOwnerId(rq) ==
    CASE rq.op \in {"view_board", "new_list", "delete_board"} -> BoardOwnerId(rq.id)
      [] rq.op \in {"create_card", "delete_list"} -> ListOwnerId(rq.id)
      [] rq.op = "delete_card" -> CardOwnerId(rq.id)
      [] OTHER -> NoUser
TargetExists(rq) ==
    CASE rq.op \in {"view_board", "new_list", "delete_board"} -> HasBoard(rq.id)
      [] rq.op \in {"create_card", "delete_list"} -> HasList(rq.id)
      [] rq.op = "delete_card" -> HasCard(rq.id)
      [] OTHER -> FALSE

EntityOps ==
    {"view_board", "new_list", "create_card", "delete_board", "delete_list", "delete_card"}
ProtectedOps == EntityOps \cup {"index", "new_board", "logout"}
CreateOps == {"new_board", "new_list", "create_card"}
FirstStep == {"whole", "load"}

UnauthorizedNotices ==
    {"You do not have permission to view that board.", "Unauthorized action.",
     "Unauthorized to delete this board.", "Unauthorized to delete this list.",
     "Unauthorized to delete this card."}
IsUnauthorized(r) ==
    r.kind = "redirect" /\ r.to = "index" /\ r.flash \in UnauthorizedNotices

ValidationNotices ==
    {"Board title cannot be empty.", "List title cannot be empty.",
     "Card content cannot be empty."}
IsValidationNotice(r) ==
    \/ r.kind = "redirect" /\ r.flash \in ValidationNotices
    \/ r.kind = "json" /\ r.status = 400 /\ r.json.message \in ValidationNotices

FailureNotice(op) ==
    CASE op = "register" ->
           "An error occurred during registration. Check if username or email is already in use."
      [] op = "new_board" -> "There was an issue creating the board."
      [] op = "new_list" -> "There was an issue creating the list."
      [] op = "create_card" -> "There was an issue creating your card."
      [] op = "delete_board" -> "There was an error deleting the board."
      [] op = "delete_list" -> "There was an error deleting the list."
      [] op = "delete_card" -> "There was an error deleting the card."
      [] OTHER -> "-"
IsFailureNotice(r, op) ==
    \/ r.kind \in {"redirect", "render"} /\ r.flash = FailureNotice(op)
    \/ r.kind = "json" /\ r.status = 500 /\ ~r.json.success
         /\ r.json.message = FailureNotice(op)

DuplicateIdentity == Render("register.html", FailureNotice("register"))

(* C1: when an authenticated user B asks for any operation on an existing *)
(* board, list or card whose ownership chain resolves to another user A,   *)
(* the request ends Unauthorized (redirect to the index with the notice)   *)
(* at once, and users, boards, lists and cards are what they were.         *)
C1_ForeignRequestUnauthorized ==
    [][(/\ request'.op \in EntityOps
        /\ request'.phase \in FirstStep
        /\ session[request'.c] # NoUser
        /\ TargetOwnerId(request') \notin {NoUser, session[request'.c]})
       => (/\ IsUnauthorized(resp')
           /\ db' = db
           /\ req'[request'.c] = Idle)]_vars

C1_Witness ==
    /\ request.op = "delete_card"
    /\ resp.flash = "Unauthorized to delete this card."
    /\ CardOwnerId(request.id) \notin {NoUser, session[request.c]}

(* C2: when the owner's delete of a board commits, the rows removed are that *)
(* board, its N lists and their M cards, 1+N+M rows in all, and every user,  *)
(* and every other board, list and card, is unchanged.                       *)
C2_BoardDeleteRemovesExactlyItsTree ==
    [][(/\ request'.op = "delete_board"
        /\ request'.phase = "commit"
        /\ ~request'.fail
        /\ BoardOwnerId(request'.id) = session[request'.c])
       => LET Ls == {l \in lists : l.board_id = request'.id}
              Ks == {k \in cards : \E l \in Ls : k.list_id = l.id}
              Rows(b, l, k) == Cardinality(b) + Cardinality(l) + Cardinality(k)
          IN /\ users' = users
             /\ boards' = boards \ {BoardRow(request'.id)}
             /\ lists' = lists \ Ls
             /\ cards' = cards \ Ks
             /\ Rows(boards, lists, cards) - Rows(boards', lists', cards')
                  = 1 + Cardinality(Ls) + Cardinality(Ks)
             /\ resp'.flash = "Board successfully deleted."]_vars

C2_Witness ==
    /\ request.op = "delete_board" /\ request.phase = "commit" /\ ~request.fail
    /\ resp.flash = "Board successfully deleted."
    /\ ~HasBoard(request.id)
    /\ \E b \in boards : /\ b.user_id # session[request.c]
                         /\ \E l \in lists : l.board_id = b.id /\ ListCards(l.id) # {}

(* C3: in every reachable state every list references a stored board, every *)
(* card a stored list and every board a stored user: nothing is orphaned.   *)
C3_NoOrphans ==
    /\ \A b \in boards : HasUser(b.user_id)
    /\ \A l \in lists : HasBoard(l.board_id)
    /\ \A k \in cards : HasList(k.list_id)

(* C4: a valid register request whose username or email is that of a stored *)
(* user is answered with the registration error and stores nothing; and no  *)
(* two stored users ever share a username or an email.                      *)
C4_DuplicateRegistrationRejected ==
    [][/\ (/\ request'.op = "register"
           /\ validate_on_submit(request'.form)
           /\ \E u \in users : \/ u.username = request'.form.data.username
                               \/ u.email = request'.form.data.email)
          => (users' = users /\ resp' = DuplicateIdentity)
       /\ \A u, v \in users' : (u.username = v.username \/ u.email = v.email) => u = v]_vars

C4_Witness ==
    /\ request.op = "register" /\ validate_on_submit(request.form) /\ ~request.fail
    /\ resp = DuplicateIdentity
    /\ \E u \in users : /\ u.email = request.form.data.email
                        /\ u.username # request.form.data.username

C6_SessionGuardsEveryProtectedRoute ==
    [][/\ (/\ request'.op \in ProtectedOps
           /\ request'.phase \in FirstStep
           /\ session[request'.c] = NoUser)
          => (resp' = LoginRedirect /\ db' = db /\ session' = session /\ req' = req)
       /\ \A c \in Browsers : session'[c] # session[c] =>
            \/ session'[c] = NoUser /\ request'.op = "logout" /\ request'.c = c
            \/ /\ request'.op = "login" /\ request'.c = c
               /\ \E u \in users :
                    /\ u.id = session'[c]
                    /\ u.username = request'.form.data.username
                    /\ u.password_hash = generate_password_hash(request'.form.data.password)
       /\ (request'.op = "logout" /\ session[request'.c] # NoUser)
            => session'[request'.c] = NoUser
       /\ request'.phase = "commit" => session[request'.c] # NoUser]_vars

C6_Witness ==
    /\ request.op = "delete_board" /\ resp = LoginRedirect
    /\ HasBoard(request.id)
    /\ session[request.c] = NoUser

(* C7: when the storage layer fails the commit of register, create board,    *)
(* create list, create card, delete board, delete list or delete card, the   *)
(* users, boards, lists and cards are what they were before the request and  *)
(* the answer is that handler's failure notice, not a server error.          *)
C7_FailedCommitRollsBack ==
    [][request'.fail
       => (/\ db' = db
           /\ IsFailureNotice(resp', request'.op)
           /\ req'[request'.c] = Idle)]_vars

C7_Witness ==
    /\ request.op = "delete_board" /\ request.phase = "commit" /\ request.fail
    /\ HasBoard(request.id)
    /\ BoardLists(request.id) # {}
    /\ BoardCards(request.id) # {}

(* C8: GET / of an authenticated user renders exactly that user's boards, by *)
(* descending identifier.                                                    *)
C8_IndexMostRecentFirst ==
    (request.op = "index" /\ resp.kind = "render")
       => resp.boards = BoardsByIdDesc(session[request.c])

(* C9: an authenticated POST /boards/new stores exactly one new board, owned *)
(* by the sender, when the title is not empty and the commit succeeds, and   *)
(* nothing otherwise.  Sent as XMLHttpRequest it answers 201, success and    *)
(* that board's id, its title and list_count 0 in the first case, 400 and no *)
(* success on an empty title, 500 and no success on a failed commit; sent    *)
(* without the header it answers with a redirect.                            *)
C9_NewBoardAnswers ==
    [][(request'.op = "new_board" /\ session[request'.c] # NoUser)
       => LET rq == request'
              new == [id |-> NextId(boards), title |-> rq.text,
                      user_id |-> session[rq.c]]
              created == ~(rq.text \in {"", Missing}) /\ ~rq.fail
          IN /\ users' = users /\ lists' = lists /\ cards' = cards
             /\ boards' = IF created THEN boards \cup {new} ELSE boards
             /\ created => new \notin boards
             /\ rq.ajax =>
                  /\ resp'.kind = "json"
                  /\ resp'.status = (IF created THEN 201
                                     ELSE IF rq.fail THEN 500 ELSE 400)
                  /\ resp'.json.success = created
                  /\ resp'.json.board =
                       (IF created
                          THEN <<[id |-> new.id, title |-> new.title, list_count |-> 0]>>
                          ELSE <<>>)
             /\ ~rq.ajax => resp'.kind = "redirect" /\ resp'.to = "index"]_vars

C9_Witness ==
    /\ request.op = "new_board" /\ request.ajax
    /\ resp.kind = "json" /\ resp.status = 201
    /\ \E b \in boards : /\ <<[id |-> b.id, title |-> b.title, list_count |-> 0]>>
                              = resp.json.board
                         /\ b.user_id = session[request.c]
                         /\ b.id = 2

(* C10: for every stored card whose chain is whole and every authenticated   *)
(* user, the owner-object check of delete-card and the identifier check of   *)
(* delete-board and delete-list give the same verdict; and a delete-card     *)
(* request goes on to delete exactly when the sender's id is the user_id of  *)
(* the board of the card's list.                                             *)
C10_CardOwnerCheckIsIdCheck ==
    [][/\ \A c \in Browsers, k \in cards :
            (/\ session[c] # NoUser
             /\ HasList(k.list_id)
             /\ HasBoard(ListRow(k.list_id).board_id))
            => LET board == BoardRow(ListRow(k.list_id).board_id)
               IN NotCardOwner(board, c) <=> NotOwner(board, c)
       /\ (/\ request'.op = "delete_card" /\ request'.phase = "load"
           /\ session[request'.c] # NoUser
           /\ HasCard(request'.id)
           /\ HasList(CardRow(request'.id).list_id)
           /\ HasBoard(ListRow(CardRow(request'.id).list_id).board_id))
          => ((resp' = Pending /\ req'[request'.c].op = "delete_card")
                <=> BoardRow(ListRow(CardRow(request'.id).list_id).board_id).user_id
                      = session[request'.c])
       /\ (request'.op = "delete_card" /\ request'.phase = "commit" /\ ~request'.fail)
          => (cards' = {k \in cards : k.id # request'.id})]_vars

C10_Witness ==
    /\ request.op = "delete_card" /\ request.phase = "commit" /\ ~request.fail
    /\ resp.flash = "Card successfully deleted."
    /\ cards # {}
====
